---- MODULE Spec2Model ----
(***************************************************************************)
(* Model of the ESP8266 door monitor (src/ESP8266Doors/ESP8266Doors.ino).  *)
(* The sketch is one sequential program: setup() runs once, then loop()    *)
(* runs forever.  Every blocking call (delay, https_stuff, show_armed) is  *)
(* a step of its own, so that the sensor level can change while the        *)
(* program is blocked.                                                     *)
(***************************************************************************)
EXTENDS Integers, Sequences, FiniteSets, TLC

(* ---- bounds of the model ---- *)
MaxCycles == 3      \* poll cycles explored per run
MaxCalls == 4       \* notifier calls explored by the notifier harness
MaxFlips == 2       \* changes of the pin counted within one debounce wait

(* ---- constants of the program and of the Arduino core ---- *)
LOW == 0
HIGH == 1
Levels == {LOW, HIGH}                 \* what digitalRead returns
HTTP_CODE_OK == 200
HTTP_CODE_MOVED_PERMANENTLY == 301
\* WiFiMulti.run() results; POST results (negative: transport error)
WlStatuses == {"WL_CONNECTED", "WL_DISCONNECTED", "WL_NO_SSID_AVAIL"}
HttpCodes == {-1, HTTP_CODE_OK, HTTP_CODE_MOVED_PERMANENTLY, 500}

VARIABLES
  pc,                 \* position of the sketch
  pin,                \* level of buttonPin (environment)
  old_door_state,     \* global: the confirmed level
  door_state,         \* loop(): first read of the cycle
  verify_door_state,  \* loop(): read after the debounce wait
  led,                \* level written to LED_BUILTIN
  calls,              \* history: arguments of the https_stuff calls
  requests,           \* history: POST requests made
  lastCall,           \* history: the last https_stuff call and its outcome
  wifiSeen,           \* history: WiFiMulti.run() has returned WL_CONNECTED
  delivered,          \* history: <<s>> when the server accepted s last
  reads,              \* history: values returned by digitalRead
  commits,            \* history: values written to old_door_state by loop()
  trace,              \* history: events of the current cycle (or of setup)
  start,              \* history: snapshot taken when the cycle began
  cycle,              \* history: number of completed poll cycles
  replay,             \* second run: reads are replayed from the first run
  first,              \* second run: what the first run did
  settledAt,          \* sensor: -1, or Len(commits) when the pin came to rest
  flips               \* sensor: changes of the pin in this debounce wait

vars == <<pc, pin, old_door_state, door_state, verify_door_state, led,
          calls, requests, lastCall, wifiSeen, reads, commits, trace,
          start, cycle, replay, first, delivered, settledAt, flips>>

netVars == <<calls, requests, lastCall, wifiSeen, delivered>>
pairVars == <<replay, first>>
envVars == <<settledAt, flips>>

NoCall == [arg |-> LOW, status |-> "none", code |-> 0, log |-> "none"]
NoFirst == [reads |-> <<>>, commits |-> <<>>, calls |-> <<>>, sent |-> FALSE]
Snapshot == [old |-> old_door_state, reads |-> Len(reads),
             calls |-> Len(calls), commits |-> Len(commits),
             requests |-> Len(requests)]

(* ---- the sensor ---- *)
\* digitalRead(buttonPin): the level of the pin; in a replayed run, the
\* value the first run read at the same position.
digitalRead ==
  IF replay /\ Len(reads) < Len(first.reads)
  THEN first.reads[Len(reads) + 1]
  ELSE pin

\* the door switch moves (at any time, also while the sketch is blocked)
SensorChange ==
  /\ ~replay
  /\ settledAt < 0
  /\ pin' = IF pin = LOW THEN HIGH ELSE LOW
  /\ flips' = IF pc \in {"wait", "verify"} /\ flips < MaxFlips
              THEN flips + 1 ELSE flips
  /\ UNCHANGED <<pc, old_door_state, door_state, verify_door_state, led,
                 reads, commits, trace, start, cycle, settledAt>>
  /\ UNCHANGED netVars
  /\ UNCHANGED pairVars

\* the door switch comes to rest: from now on the pin keeps its level
SensorSettle ==
  /\ ~replay
  /\ settledAt < 0
  /\ settledAt' = Len(commits)
  /\ UNCHANGED <<pc, pin, old_door_state, door_state, verify_door_state, led,
                 reads, commits, trace, start, cycle, flips>>
  /\ UNCHANGED netVars
  /\ UNCHANGED pairVars

(* ---- https_stuff ---- *)
\* variant of line 78: the connectivity test is left out
Connected_always(status) == TRUE

\* line 78: the connectivity test
Connected(status) == status = "WL_CONNECTED"

\* variant of lines 91-95: the two branches are exchanged
httpAddress_swapped(state) ==
  [scheme |-> "https", host |-> "www.doors.modeemi.fi",
   path |-> "space_events", space |-> "SPACEID",
   action |-> IF state = 0 THEN "close" ELSE "open"]

\* lines 89-95: the address of the request
httpAddress(state) ==
  [scheme |-> "https", host |-> "www.doors.modeemi.fi",
   path |-> "space_events", space |-> "SPACEID",
   action |-> IF state = 0 THEN "open" ELSE "close"]

\* line 99: HTTPClient::begin accepts an http or https address
begin(url) == url.scheme \in {"http", "https"}

\* the outcome of a call: the result of WiFiMulti.run(), the POST result
\* (0 when no POST was made) and the branch of lines 106-122 taken
Outcome(state, status, httpCode, log) ==
  [arg |-> state, status |-> status, code |-> httpCode, log |-> log]

\* the request of lines 99-103
Post(state) ==
  [method |-> "POST", url |-> httpAddress(state),
   auth |-> <<"WEB_USER", "WEB_PASS">>, body |-> ""]

\* lines 106-117: what is printed for a POST result
postLog(httpCode) ==
  IF httpCode > 0
  THEN IF httpCode = HTTP_CODE_OK \/ httpCode = HTTP_CODE_MOVED_PERMANENTLY
       THEN "payload" ELSE "code"
  ELSE "failed"

\* lines 103-111: the server has state s when it answers 200 or 301
Accepted(state, httpCode) ==
  IF postLog(httpCode) = "payload" THEN <<state>> ELSE delivered

\* variant of https_stuff: a request that does not succeed takes the
\* confirmed level back, so that the change is detected and reported again
https_stuff_rollback(state) ==
  /\ calls' = Append(calls, state)
  /\ \E status \in WlStatuses :
       IF Connected(status)
       THEN /\ wifiSeen' = TRUE
            /\ \E httpCode \in HttpCodes :
                 /\ requests' = Append(requests, Post(state))
                 /\ lastCall' = Outcome(state, status, httpCode,
                                        postLog(httpCode))
                 /\ delivered' = Accepted(state, httpCode)
                 /\ old_door_state' =
                      IF postLog(httpCode) = "payload" THEN old_door_state
                      ELSE IF state = LOW THEN HIGH ELSE LOW
       ELSE /\ wifiSeen' = wifiSeen
            /\ requests' = requests
            /\ delivered' = delivered
            /\ lastCall' = Outcome(state, status, 0, "none")
            /\ old_door_state' = IF state = LOW THEN HIGH ELSE LOW
  /\ UNCHANGED <<door_state, verify_door_state, led>>

\* variant of https_stuff: a state equal to the one of the previous call is
\* not sent again
https_stuff_dedup(state) ==
  /\ calls' = Append(calls, state)
  /\ \E status \in WlStatuses :
       IF Connected(status)
       THEN /\ wifiSeen' = TRUE
            /\ IF calls # <<>> /\ calls[Len(calls)] = state
               THEN /\ requests' = requests
                    /\ delivered' = delivered
                    /\ lastCall' = Outcome(state, status, 0, "none")
               ELSE \E httpCode \in HttpCodes :
                      /\ requests' = Append(requests, Post(state))
                      /\ lastCall' = Outcome(state, status, httpCode,
                                             postLog(httpCode))
                      /\ delivered' = Accepted(state, httpCode)
       ELSE /\ wifiSeen' = wifiSeen
            /\ requests' = requests
            /\ delivered' = delivered
            /\ lastCall' = Outcome(state, status, 0, "none")
  /\ UNCHANGED <<old_door_state, door_state, verify_door_state, led>>

\* lines 77-124
https_stuff(state) ==
  /\ calls' = Append(calls, state)
  /\ \E status \in WlStatuses :
       IF Connected(status)
       THEN /\ wifiSeen' = TRUE
            /\ IF begin(httpAddress(state))
               THEN \E httpCode \in HttpCodes :
                      /\ requests' = Append(requests, Post(state))
                      /\ lastCall' = Outcome(state, status, httpCode,
                                             postLog(httpCode))
                      /\ delivered' = Accepted(state, httpCode)
               ELSE /\ requests' = requests
                    /\ delivered' = delivered
                    /\ lastCall' = Outcome(state, status, 0, "unable")
       ELSE /\ wifiSeen' = wifiSeen
            /\ requests' = requests
            /\ delivered' = delivered
            /\ lastCall' = Outcome(state, status, 0, "none")
  /\ UNCHANGED <<old_door_state, door_state, verify_door_state, led>>

(* ---- setup ---- *)
\* lines 28-44: seed the confirmed level, show the start pattern
setup ==
  /\ pc = "setup"
  /\ old_door_state' = digitalRead
  /\ reads' = Append(reads, digitalRead)
  /\ led' = HIGH                         \* show_running ends with HIGH
  /\ trace' = <<"read", "running">>
  /\ pc' = "setup_notify"
  /\ UNCHANGED <<pin, door_state, verify_door_state, commits, start, cycle>>
  /\ UNCHANGED netVars
  /\ UNCHANGED pairVars
  /\ UNCHANGED envVars

\* variant of line 45: the start value is not reported
setup_notify_skip ==
  /\ pc = "setup_notify"
  /\ pc' = "loop"
  /\ UNCHANGED <<pin, old_door_state, door_state, verify_door_state, led,
                 reads, commits, trace, start, cycle>>
  /\ UNCHANGED netVars
  /\ UNCHANGED pairVars
  /\ UNCHANGED envVars

\* line 45
setup_notify ==
  /\ pc = "setup_notify"
  /\ https_stuff(old_door_state)
  /\ trace' = Append(trace, "notify")
  /\ pc' = "loop"
  /\ UNCHANGED <<pin, reads, commits, start, cycle>>
  /\ UNCHANGED pairVars
  /\ UNCHANGED envVars

(* ---- loop ---- *)
\* variant of line 50: the test is left out, every cycle re-checks
Changed_always(level, old) == TRUE

\* line 50
Changed(level, old) == level # old

\* variants of the test of line 54: `!=` for `==`, and no test at all
Stable_inverted(verify, level) == verify # level
Stable_always(verify, level) == TRUE

\* line 54
Stable(verify, level) == verify = level

\* variant of loop(): the armed pattern is shown only after a change was seen
loop_read_quiet ==
  /\ pc = "loop"
  /\ cycle < MaxCycles
  /\ door_state' = digitalRead
  /\ reads' = Append(reads, digitalRead)
  /\ start' = Snapshot
  /\ trace' = <<"read">>
  /\ pc' = IF Changed(digitalRead, old_door_state) THEN "wait" ELSE "sleep"
  /\ flips' = 0
  /\ UNCHANGED <<pin, old_door_state, verify_door_state, led, commits, cycle,
                 settledAt>>
  /\ UNCHANGED netVars
  /\ UNCHANGED pairVars

\* lines 49-50: the first read of the cycle
loop_read ==
  /\ pc = "loop"
  /\ cycle < MaxCycles
  /\ door_state' = digitalRead
  /\ reads' = Append(reads, digitalRead)
  /\ start' = Snapshot
  /\ trace' = <<"read">>
  /\ pc' = IF Changed(digitalRead, old_door_state) THEN "wait" ELSE "armed"
  /\ flips' = 0
  /\ UNCHANGED <<pin, old_door_state, verify_door_state, led, commits, cycle,
                 settledAt>>
  /\ UNCHANGED netVars
  /\ UNCHANGED pairVars

\* variant of lines 51-52: the pin is sampled during the wait, and a
\* level other than the first read ends the cycle
loop_wait_poll ==
  /\ pc = "wait"
  /\ reads' = Append(reads, digitalRead)
  /\ trace' = Append(trace, "wait")
  /\ pc' = IF digitalRead = door_state THEN "verify" ELSE "armed"
  /\ UNCHANGED <<pin, old_door_state, door_state, verify_door_state, led,
                 commits, start, cycle>>
  /\ UNCHANGED netVars
  /\ UNCHANGED pairVars
  /\ UNCHANGED envVars

\* lines 51-52: delay(15000)
loop_wait ==
  /\ pc = "wait"
  /\ trace' = Append(trace, "wait")
  /\ pc' = "verify"
  /\ UNCHANGED <<pin, old_door_state, door_state, verify_door_state, led,
                 reads, commits, start, cycle>>
  /\ UNCHANGED netVars
  /\ UNCHANGED pairVars
  /\ UNCHANGED envVars

\* variant of lines 54-65: the confirmed level is not written before the
\* notifier is called
loop_verify_late ==
  /\ pc = "verify"
  /\ verify_door_state' = digitalRead
  /\ reads' = Append(reads, digitalRead)
  /\ IF Stable(digitalRead, door_state)
     THEN /\ door_state' = digitalRead
          /\ led' = IF digitalRead = HIGH THEN LOW ELSE HIGH
          /\ trace' = Append(trace, "read")
          /\ pc' = "notify"
          /\ UNCHANGED <<old_door_state, commits>>
     ELSE /\ trace' = Append(trace, "read")
          /\ pc' = "armed"
          /\ UNCHANGED <<door_state, old_door_state, led, commits>>
  /\ UNCHANGED <<pin, start, cycle>>
  /\ UNCHANGED netVars
  /\ UNCHANGED pairVars
  /\ UNCHANGED envVars

\* lines 53-64: the second read, and the commit when it confirms the first
loop_verify ==
  /\ pc = "verify"
  /\ verify_door_state' = digitalRead
  /\ reads' = Append(reads, digitalRead)
  /\ IF Stable(digitalRead, door_state)
     THEN /\ door_state' = digitalRead
          /\ old_door_state' = digitalRead
          /\ led' = IF digitalRead = HIGH THEN LOW ELSE HIGH
          /\ commits' = Append(commits, digitalRead)
          /\ trace' = trace \o <<"read", "commit">>
          /\ pc' = "notify"
     ELSE /\ trace' = Append(trace, "read")
          /\ pc' = "armed"
          /\ UNCHANGED <<door_state, old_door_state, led, commits>>
  /\ UNCHANGED <<pin, start, cycle>>
  /\ UNCHANGED netVars
  /\ UNCHANGED pairVars
  /\ UNCHANGED envVars

\* variant of line 65: the call is left out
loop_notify_skip ==
  /\ pc = "notify"
  /\ pc' = "armed"
  /\ UNCHANGED <<pin, old_door_state, door_state, verify_door_state, led,
                 reads, commits, trace, start, cycle>>
  /\ UNCHANGED netVars
  /\ UNCHANGED pairVars
  /\ UNCHANGED envVars

\* variant of line 65: the call waits for the network and does not return
\* without it
loop_notify_block ==
  /\ pc = "notify"
  /\ https_stuff(verify_door_state)
  /\ trace' = Append(trace, "notify")
  /\ pc' = IF lastCall'.status = "WL_CONNECTED" THEN "armed" ELSE "blocked"
  /\ UNCHANGED <<pin, reads, commits, start, cycle>>
  /\ UNCHANGED pairVars
  /\ UNCHANGED envVars

\* line 65
loop_notify ==
  /\ pc = "notify"
  /\ https_stuff(verify_door_state)
  /\ trace' = Append(trace, "notify")
  /\ pc' = "armed"
  /\ UNCHANGED <<pin, reads, commits, start, cycle>>
  /\ UNCHANGED pairVars
  /\ UNCHANGED envVars

\* line 70: show_armed (lines 143-167) ends with HIGH
show_armed ==
  /\ pc = "armed"
  /\ led' = HIGH
  /\ trace' = Append(trace, "armed")
  /\ pc' = "sleep"
  /\ UNCHANGED <<pin, old_door_state, door_state, verify_door_state,
                 reads, commits, start, cycle>>
  /\ UNCHANGED netVars
  /\ UNCHANGED pairVars
  /\ UNCHANGED envVars

\* variant of loop(): line 69 is not commented out, the state is sent
\* again in every cycle
loop_sleep_resend ==
  /\ pc = "sleep"
  /\ https_stuff(old_door_state)
  /\ trace' = Append(trace, "sleep")
  /\ cycle' = cycle + 1
  /\ pc' = "loop"
  /\ UNCHANGED <<pin, reads, commits, start>>
  /\ UNCHANGED pairVars
  /\ UNCHANGED envVars

\* lines 71-73: delay(8000), then loop() is entered again
loop_sleep ==
  /\ pc = "sleep"
  /\ trace' = Append(trace, "sleep")
  /\ cycle' = cycle + 1
  /\ pc' = "loop"
  /\ UNCHANGED <<pin, old_door_state, door_state, verify_door_state, led,
                 reads, commits, start>>
  /\ UNCHANGED netVars
  /\ UNCHANGED pairVars
  /\ UNCHANGED envVars

(* ---- the program ---- *)
\* lines 21-26: the globals before setup() runs
Globals ==
  /\ old_door_state = 0
  /\ door_state = 0
  /\ verify_door_state = 0
  /\ led = LOW
  /\ calls = <<>>
  /\ requests = <<>>
  /\ lastCall = NoCall
  /\ wifiSeen = FALSE
  /\ delivered = <<>>
  /\ reads = <<>>
  /\ commits = <<>>
  /\ trace = <<>>
  /\ start = Snapshot
  /\ cycle = 0

Init ==
  /\ pc = "setup"
  /\ Globals
  /\ pin \in Levels
  /\ replay = FALSE
  /\ first = NoFirst
  /\ settledAt = -1
  /\ flips = 0

Next ==
  \/ setup
  \/ setup_notify
  \/ loop_read
  \/ loop_wait
  \/ loop_verify
  \/ loop_notify
  \/ show_armed
  \/ loop_sleep
  \/ SensorChange

Spec == Init /\ [][Next]_vars

(* ---- the notifier alone: https_stuff called with any sequence of states ---- *)
notify ==
  /\ pc = "https_stuff"
  /\ Len(calls) < MaxCalls
  /\ \E state \in Levels : https_stuff(state)
  /\ UNCHANGED <<pc, pin, reads, commits, trace, start, cycle>>
  /\ UNCHANGED pairVars
  /\ UNCHANGED envVars

NotifierInit ==
  /\ pc = "https_stuff"
  /\ Globals
  /\ pin \in Levels
  /\ replay = FALSE
  /\ first = NoFirst
  /\ settledAt = -1
  /\ flips = 0

NotifierNext == notify

NotifierSpec == NotifierInit /\ [][NotifierNext]_vars

(* ---- two runs on the same reads ---- *)
\* The board is reset after the last cycle of the first run.  The second
\* run is given the reads of the first one (digitalRead), while the results
\* of WiFiMulti.run() and of POST are chosen anew.
Restart ==
  /\ ~replay
  /\ pc = "loop"
  /\ cycle = MaxCycles
  /\ replay' = TRUE
  /\ first' = [reads |-> reads, commits |-> commits, calls |-> calls,
               sent |-> requests # <<>>]
  /\ pc' = "setup"
  /\ old_door_state' = 0
  /\ door_state' = 0
  /\ verify_door_state' = 0
  /\ led' = LOW
  /\ calls' = <<>>
  /\ requests' = <<>>
  /\ lastCall' = NoCall
  /\ wifiSeen' = FALSE
  /\ delivered' = <<>>
  /\ reads' = <<>>
  /\ commits' = <<>>
  /\ trace' = <<>>
  /\ start' = [old |-> 0, reads |-> 0, calls |-> 0, commits |-> 0,
               requests |-> 0]
  /\ cycle' = 0
  /\ flips' = 0
  /\ UNCHANGED <<pin, settledAt>>

PairNext ==
  \/ setup
  \/ setup_notify
  \/ loop_read
  \/ loop_wait
  \/ loop_verify
  \/ loop_notify
  \/ show_armed
  \/ loop_sleep
  \/ SensorChange
  \/ Restart

PairSpec == Init /\ [][PairNext]_vars

(* ---- the sketch with a door that may come to rest ---- *)
SettleNext ==
  \/ setup
  \/ setup_notify
  \/ loop_read
  \/ loop_wait
  \/ loop_verify
  \/ loop_notify
  \/ show_armed
  \/ loop_sleep
  \/ SensorChange
  \/ SensorSettle

SettleSpec == Init /\ [][SettleNext]_vars

\* the steps of the sketch: setup() once, then loop() again and again
Sketch ==
  \/ setup
  \/ setup_notify
  \/ loop_read
  \/ loop_wait
  \/ loop_verify
  \/ loop_notify
  \/ show_armed
  \/ loop_sleep

\* the processor keeps running the sketch, and every call of a delay, of
\* the notifier and of the indicator returns
FairSpec == Init /\ [][SettleNext]_vars /\ WF_vars(Sketch)

(* ---- the poll cycle that has just ended ---- *)
CycleDone == pc = "loop" /\ cycle > 0
CycleReads == SubSeq(reads, start.reads + 1, Len(reads))
CycleCalls == SubSeq(calls, start.calls + 1, Len(calls))
CycleCommits == SubSeq(commits, start.commits + 1, Len(commits))
Events(e) == {i \in 1..Len(trace) : trace[i] = e}

\* C1: a poll cycle sets the confirmed level to the newly read level exactly
\* when its first read differs from the confirmed level and the read after
\* the debounce wait still differs from it; otherwise the confirmed level
\* after the cycle is the confirmed level before it.
C1_DebounceRule ==
  CycleDone =>
    LET r == CycleReads
        accept == /\ r[1] # start.old
                  /\ Len(r) >= 2
                  /\ r[2] # start.old
    IN  IF accept
        THEN old_door_state = r[2] /\ old_door_state # start.old
        ELSE old_door_state = start.old

C1_Witness ==
  /\ CycleDone
  /\ Len(CycleReads) = 2
  /\ CycleReads[1] # start.old
  /\ CycleReads[2] # start.old
  /\ old_door_state = CycleReads[2]

\* C2: every accepted transition of a poll cycle is followed, in that cycle,
\* by exactly one notifier call, whose argument is the new confirmed level;
\* a cycle without an accepted transition makes no notifier call.
C2_OneCallPerTransition ==
  CycleDone =>
    /\ CycleCalls = CycleCommits
    /\ Len(CycleCommits) <= 1
    /\ (CycleCommits # <<>> => CycleCalls = <<old_door_state>>)
    /\ (old_door_state # start.old => CycleCommits = <<old_door_state>>)

C2_Witness ==
  /\ CycleDone
  /\ cycle >= 2
  /\ start.old = HIGH
  /\ CycleReads = <<LOW, LOW>>
  /\ old_door_state = LOW
  /\ CycleCalls = <<LOW>>
  /\ Len(calls) = 1 + Len(commits)

\* C3 as stated: the start value is never reported, so a notifier call is
\* always preceded by a confirmed transition of the poll loop.
C3_SilentSeed == calls # <<>> => commits # <<>>

\* C3 as amended: setup seeds the confirmed level from the first read and
\* calls the notifier exactly once with it; every later call follows a
\* confirmed transition of the poll loop.
C3_SeedReported ==
  /\ pc = "setup" => calls = <<>> /\ reads = <<>>
  /\ pc = "setup_notify" => calls = <<>> /\ old_door_state = reads[1]
  /\ pc \notin {"setup", "setup_notify"} =>
       /\ calls # <<>>
       /\ calls[1] = reads[1]
       /\ Len(calls) <= 1 + Len(commits)
       /\ (commits = <<>> => calls = <<reads[1]>> /\ old_door_state = reads[1])

C3_Witness ==
  /\ pc = "loop"
  /\ cycle = 0
  /\ calls = <<old_door_state>>
  /\ Len(requests) = 1
  /\ commits = <<>>

\* C4: a cycle whose first read differs from the confirmed level and whose
\* read after the debounce wait equals it again makes no notifier call and
\* leaves the confirmed level alone.
C4_BlipIgnored ==
  (/\ CycleDone
   /\ Len(CycleReads) >= 2
   /\ CycleReads[1] # start.old
   /\ CycleReads[2] = start.old)
  => /\ old_door_state = start.old
     /\ CycleCalls = <<>>
     /\ CycleCommits = <<>>
     /\ Len(requests) = start.requests
     /\ Events("commit") = {}
     /\ Events("notify") = {}

C4_Witness ==
  /\ CycleDone
  /\ start.old = HIGH
  /\ CycleReads = <<LOW, HIGH>>
  /\ old_door_state = HIGH
  /\ trace = <<"read", "wait", "read", "armed", "sleep">>

\* lines 58-64: the door state a level stands for
DoorState(level) == IF level = HIGH THEN "Closed" ELSE "Open"

NotSent == {"WL_DISCONNECTED", "WL_NO_SSID_AVAIL"}
Failed == {"code", "failed"}
Last(s) == s[Len(s)]
IsPrefix(s, t) == Len(s) <= Len(t) /\ SubSeq(t, 1, Len(s)) = s

\* C5: a notifier call made while WiFiMulti.run() reports no connection
\* makes no request and leaves the monitor's state alone; the monitor goes
\* on to the indicator step, and no call or request is made afterwards
\* until the poll loop accepts another transition.
C5_UnusableIsNoOp ==
  /\ [][(calls' # calls /\ lastCall'.status \in NotSent) =>
          /\ requests' = requests
          /\ old_door_state' = old_door_state
          /\ door_state' = door_state
          /\ (pc = "notify" => pc' = "armed")
          /\ (pc = "setup_notify" => pc' = "loop")]_vars
  /\ [][(lastCall.status \in NotSent /\ Len(calls) = 1 + Len(commits)) =>
          /\ calls' = calls
          /\ requests' = requests]_vars

C5_Witness ==
  /\ CycleDone
  /\ cycle >= 2
  /\ lastCall.status = "WL_DISCONNECTED"
  /\ CycleCalls = <<old_door_state>>
  /\ Len(requests) = start.requests
  /\ trace = <<"read", "wait", "read", "commit", "notify", "armed", "sleep">>

\* C6: a notifier call whose request fails (status 500, or a transport
\* error) leaves the confirmed level as it was when the call was made, and
\* no call or request follows it until the poll loop accepts another
\* transition.
C6_NoRetry ==
  /\ [][(calls' # calls /\ lastCall'.log \in Failed) =>
          /\ old_door_state' = old_door_state
          /\ old_door_state' = lastCall'.arg]_vars
  /\ [][(lastCall.log \in Failed /\ Len(calls) = 1 + Len(commits)) =>
          /\ calls' = calls
          /\ requests' = requests
          /\ (commits' = commits => old_door_state' = old_door_state)]_vars

C6_Witness ==
  /\ CycleDone
  /\ lastCall.code = 500
  /\ Len(calls) = start.calls
  /\ Len(requests) = start.requests
  /\ Len(commits) = start.commits
  /\ commits # <<>>
  /\ old_door_state = lastCall.arg

\* C7: every request is addressed by the state of the call that makes it:
\* the action is "open" for Open (logic-low) and "close" for Closed
\* (logic-high), under space_events and the fixed space identifier.
C7_ActionSegment ==
  [][requests' # requests =>
       /\ calls' = Append(calls, Last(calls'))
       /\ requests' = Append(requests, Last(requests'))
       /\ Last(requests').url.action =
            (IF DoorState(Last(calls')) = "Open" THEN "open" ELSE "close")
       /\ Last(requests').url.path = "space_events"
       /\ Last(requests').url.space = "SPACEID"]_vars

C7_Witness ==
  /\ Len(requests) >= 2
  /\ requests[1].url.action = "close"
  /\ requests[2].url.action = "open"
  /\ calls[1] = HIGH
  /\ calls[2] = LOW

\* C8: every notifier call made while the network is usable makes exactly
\* one request, for the state it was called with, whatever the states of
\* the calls before it; two calls in a row with the same state make two
\* requests.
C8_NoDedup ==
  [][calls' # calls =>
       /\ Len(calls') = Len(calls) + 1
       /\ (lastCall'.status = "WL_CONNECTED" =>
             /\ Len(requests') = Len(requests) + 1
             /\ SubSeq(requests', 1, Len(requests)) = requests
             /\ Last(requests').method = "POST"
             /\ Last(requests').body = ""
             /\ Last(requests').url.action =
                  (IF Last(calls') = LOW THEN "open" ELSE "close"))]_vars

C8_Witness ==
  /\ pc = "https_stuff"
  /\ calls = <<HIGH, HIGH>>
  /\ Len(requests) = 2
  /\ requests[1] = requests[2]
  /\ requests[1].url.action = "close"

\* C9: a second run that is given the reads of the first run, under other
\* results of the connectivity test and of the requests, commits the same
\* confirmed levels and makes the same notifier calls; a run in which the
\* network is never usable makes no request.
C9_ReadsDecide ==
  /\ ~wifiSeen => requests = <<>>
  /\ replay =>
       /\ IsPrefix(reads, first.reads)
       /\ IsPrefix(commits, first.commits)
       /\ IsPrefix(calls, first.calls)
       /\ (pc = "loop" /\ cycle = MaxCycles =>
             /\ reads = first.reads
             /\ commits = first.commits
             /\ calls = first.calls)

C9_Witness ==
  /\ replay
  /\ pc = "loop"
  /\ cycle = MaxCycles
  /\ first.sent
  /\ ~wifiSeen
  /\ requests = <<>>
  /\ Len(commits) >= 2
  /\ commits = first.commits

\* C10: every poll cycle shows the armed pattern exactly once, after the
\* notifier call of the cycle (if there is one) and before the sleep that
\* ends the cycle, whatever was read and whatever the notifier did.
C10_ArmedEveryCycle ==
  /\ \A i \in Events("armed") :
       /\ \A j \in Events("notify") : j < i
       /\ \A j \in Events("sleep") : i < j
  /\ Cardinality(Events("armed")) <= 1
  /\ (pc = "sleep" \/ CycleDone) => Cardinality(Events("armed")) = 1
  /\ CycleDone => /\ Last(trace) = "sleep"
                  /\ trace[Len(trace) - 1] = "armed"

C10_Witness ==
  /\ CycleDone
  /\ lastCall.log = "failed"
  /\ trace = <<"read", "wait", "read", "commit", "notify", "armed", "sleep">>

\* C11: the sketch has no stuck state.  As long as cycles are left to
\* explore, some step of the sketch is enabled in every state, and every
\* poll cycle that begins ends at the start of the next one, whatever the
\* reads, the connectivity and the result of the request.
C11_NoStuckState ==
  /\ [](pc \in {"setup", "setup_notify", "loop", "wait", "verify", "notify",
                "armed", "sleep"})
  /\ []((pc = "loop" => cycle < MaxCycles) => ENABLED Sketch)
  /\ \A c \in 0..(MaxCycles - 1) :
       (pc = "loop" /\ cycle = c) ~> (pc = "loop" /\ cycle = c + 1)

C11_Witness ==
  /\ pc = "loop"
  /\ cycle = MaxCycles
  /\ Len(commits) >= 2
  /\ lastCall.log = "code"
  /\ Len(requests) < Len(calls)

\* C12: after setup has seeded it, the confirmed level is written only by
\* the confirmation step of loop() (lines 54-57): the notifier on each of
\* its outcomes, the indicator, the delays and the first read leave it
\* alone, and a poll cycle writes it at most once.
C12_OnlyConfirmationWrites ==
  /\ [][(pc \in {"setup_notify", "loop", "wait", "notify", "armed", "sleep"})
          => (old_door_state' = old_door_state)]_vars
  /\ [][(calls' # calls) => (old_door_state' = old_door_state)]_vars
  /\ [][(commits' # commits) =>
          /\ pc = "verify"
          /\ commits' = Append(commits, old_door_state')]_vars
  /\ [][(pc = "verify" /\ old_door_state' # old_door_state)
          => (commits' # commits)]_vars
  /\ [](pc # "setup" => Len(commits) - start.commits <= 1)

C12_Witness ==
  /\ pc = "sleep"
  /\ cycle >= 1
  /\ Len(commits) = start.commits + 1
  /\ Len(calls) = start.calls + 1
  /\ lastCall.log = "payload"
  /\ old_door_state = Last(commits)
  /\ old_door_state # start.old

\* the notification of the last accepted transition did not reach the server
Lost ==
  /\ commits # <<>>
  /\ Len(calls) = 1 + Len(commits)
  /\ lastCall.log # "payload"
  /\ pc \in {"armed", "sleep", "loop", "wait", "verify"}

\* the pin has come to rest at the confirmed level
AtRest == settledAt >= 0 /\ pin = old_door_state

\* C13 as stated: when the notification of an accepted transition is lost
\* and the pin never changes again, the state the server accepted last
\* differs from the confirmed state.
C13_StaysWrong == (Lost /\ AtRest) => delivered # <<old_door_state>>

\* C13 as amended: when the notification of an accepted transition is lost
\* and the pin never changes again, no call and no request is made any
\* more and the state the server accepted last never changes; it is the
\* confirmed state only when the notification of the transition before
\* was lost as well.
C13_LostStaysLost ==
  /\ [][(Lost /\ AtRest) =>
          /\ Lost' /\ AtRest'
          /\ delivered' = delivered
          /\ calls' = calls
          /\ requests' = requests
          /\ old_door_state' = old_door_state]_vars
  /\ []((Lost /\ delivered = <<old_door_state>>) => Len(commits) >= 2)

C13_Witness ==
  /\ CycleDone
  /\ Lost
  /\ AtRest
  /\ Len(calls) = start.calls
  /\ Len(commits) = 1
  /\ delivered = <<calls[1]>>
  /\ delivered # <<old_door_state>>

\* C14: in a confirming cycle the confirmed level is written before the
\* notifier is called: at every call made by loop() the argument is the
\* confirmed level, which is the last level committed, and the call leaves
\* it as it is on every outcome.
C14_CommitBeforeNotify ==
  /\ [][(pc = "notify" /\ calls' # calls) =>
          /\ Last(calls') = old_door_state
          /\ commits # <<>>
          /\ Last(commits) = old_door_state
          /\ Len(commits) = start.commits + 1
          /\ old_door_state' = old_door_state
          /\ commits' = commits]_vars
  /\ []((Events("running") = {}) =>
          \A i \in Events("notify") : \E j \in Events("commit") : j < i)

C14_Witness ==
  /\ pc = "armed"
  /\ trace = <<"read", "wait", "read", "commit", "notify">>
  /\ lastCall.status = "WL_NO_SSID_AVAIL"
  /\ Last(calls) = old_door_state
  /\ Last(commits) = old_door_state
  /\ old_door_state # start.old
  /\ Len(requests) = start.requests

\* C15: the debounce is one re-check.  A poll cycle reads the pin once
\* when the first read equals the confirmed level and twice, before and
\* after the wait, when it differs; no read is taken during the wait, the
\* notifier call, the indicator pattern or the sleep, so a cycle whose two
\* reads agree is accepted however the pin moved in between.
C15_SingleRecheck ==
  /\ [][(reads' # reads) =>
          /\ pc \in {"setup", "loop", "verify"}
          /\ Len(reads') = Len(reads) + 1]_vars
  /\ [](CycleDone =>
          /\ Len(CycleReads) = (IF CycleReads[1] = start.old THEN 1 ELSE 2)
          /\ Events("read") = (IF Len(CycleReads) = 1 THEN {1} ELSE {1, 3})
          /\ (Len(CycleReads) = 2 => Events("wait") = {2}))
  /\ []((/\ CycleDone
         /\ Len(CycleReads) = 2
         /\ CycleReads[1] = CycleReads[2])
        => /\ old_door_state = CycleReads[2]
           /\ CycleCommits = <<CycleReads[2]>>)

C15_Witness ==
  /\ CycleDone
  /\ flips >= 2
  /\ start.old = HIGH
  /\ CycleReads = <<LOW, LOW>>
  /\ old_door_state = LOW
  /\ CycleCalls = <<LOW>>

(* ---- the monitor of the testable property ---- *)
\* The monitor that accepts a change when the read after the wait differs
\* from the confirmed level, run over a sequence of reads: the confirmed
\* level, the levels accepted so far, and whether a second read is awaited.
RECURSIVE SpecRun(_, _, _)
SpecRun(rs, confirmed, accepted) ==
  IF rs = <<>>
  THEN [state |-> confirmed, commits |-> accepted, pending |-> FALSE]
  ELSE IF rs[1] = confirmed
  THEN SpecRun(Tail(rs), confirmed, accepted)
  ELSE IF Len(rs) = 1
  THEN [state |-> confirmed, commits |-> accepted, pending |-> TRUE]
  ELSE IF rs[2] # confirmed
  THEN SpecRun(Tail(Tail(rs)), rs[2], Append(accepted, rs[2]))
  ELSE SpecRun(Tail(Tail(rs)), confirmed, accepted)

SpecMonitor(rs) == SpecRun(Tail(rs), rs[1], <<>>)

\* C16: for a two-valued pin the test of the sketch (the read after the
\* wait equals the read before it) and the test of the testable property
\* (the read after the wait differs from the confirmed level) never
\* disagree: on the same reads both monitors ask for a second read in the
\* same cycles, accept the same levels and hold the same confirmed level.
C16_SameAsSpecTest ==
  reads # <<>> =>
    /\ SpecMonitor(reads).state = old_door_state
    /\ SpecMonitor(reads).commits = commits
    /\ SpecMonitor(reads).pending = (pc \in {"wait", "verify"})

C16_Witness ==
  /\ CycleDone
  /\ Len(commits) >= 2
  /\ Len(reads) >= 7
  /\ SpecMonitor(reads).commits = commits
  /\ SpecMonitor(reads).state = old_door_state

\* C17: two notifier calls in a row never carry the same state, the call
\* of setup and the first call of loop() included.
C17_CallsAlternate ==
  \A i \in 1..(Len(calls) - 1) : calls[i] # calls[i + 1]

C17_Witness ==
  /\ Len(calls) >= 3
  /\ calls[1] = LOW
  /\ calls[2] = HIGH
  /\ calls[3] = LOW
  /\ Len(requests) = 1

\* C18: when the pin has come to rest at a level v that differs from the
\* confirmed level, and a poll cycle is left to explore, the sketch comes
\* to confirm v and to call the notifier with v; once the confirmed level
\* is the level the pin rests at and has been reported, it is never
\* written again and no further call is made.
C18_StableChangeConfirmed ==
  /\ \A v \in Levels :
       (/\ settledAt >= 0
        /\ pin = v
        /\ old_door_state # v
        /\ pc # "setup"
        /\ cycle + 1 < MaxCycles)
       ~> (/\ old_door_state = v
           /\ commits # <<>>
           /\ Last(commits) = v
           /\ Len(calls) = 1 + Len(commits)
           /\ Last(calls) = v)
  /\ [][(/\ settledAt >= 0
         /\ pin = old_door_state
         /\ pc # "setup"
         /\ Len(calls) = 1 + Len(commits))
        => /\ old_door_state' = old_door_state
           /\ commits' = commits
           /\ calls' = calls]_vars

C18_Witness ==
  /\ CycleDone
  /\ settledAt >= 0
  /\ Len(commits) = settledAt + 1
  /\ old_door_state = pin
  /\ Last(commits) = pin
  /\ Last(calls) = pin
  /\ Len(calls) = start.calls
  /\ Len(commits) = start.commits

====
